---- MODULE Spec2Model ----
(***************************************************************************)
(* Model of the cross-chain bridge event listener of src/script.py:        *)
(* StateManager (dedup set), BlockchainConnector (height read, log fetch), *)
(* EventProcessor.process_event and the poll loop of                       *)
(* CrossChainBridgeEventListener.  Spec is the program as it stands,       *)
(* SpecRestart adds restarts of the process, SpecFaults an Actuator that   *)
(* can raise and a KeyboardInterrupt that can arrive at any point.         *)
(*                                                                         *)
(* Python values are modelled as follows.  None is the empty tuple and a   *)
(* present integer v is <<v>>, so that `x is None`, `if x:` and `x == 0`   *)
(* stay three different tests.  Strings are TLA+ strings.                  *)
(***************************************************************************)
EXTENDS Integers, Sequences, FiniteSets, TLC

\* ------------------------------------------------------------ bounds
\* Chain heights the Ledger Client may report (any of them at any read).
MinHeight == 10
MaxHeight == 21
\* How many extra (repeated) entries one fetched batch may hold.
MaxDup == 1

\* ------------------------------------------------- program constants
BLOCK_CONFIRMATIONS == 12
\* The literal 10 of _get_start_block: how far back a first run looks.
Lookback == 10
\* The literal -1 _get_start_block returns to ask for a retry.
RetrySentinel == -1
POLL_INTERVAL_SECONDS == 10
\* The literal 2 of run: the sleep after an exception is twice the interval.
BackoffFactor == 2

\* ------------------------------------------------------ Python values
None == <<>>
Some(v) == <<v>>

\* bool(x) of an Optional[int]: None and 0 are both falsy.
Truthy(x) == x # None /\ x[1] # 0

\* bool(n) of an int.
TruthyInt(n) == n # 0

\* bool(s) of a str.
TruthyStr(s) == s # ""

\* ------------------------------------------------------ the source chain
\* The six named arguments of the TokensLocked event.
ArgNames == {"sender", "recipient", "token", "amount", "destinationChainId", "nonce"}

FullArgs == [a \in ArgNames |-> 7]

\* args of an event emitted without a recipient.
NoRecipient == [a \in ArgNames \ {"recipient"} |-> 7]

\* The logs the bridge contract has emitted.  transactionHash is the raw
\* hash, logIndex the position of the log in its block: no two logs of
\* one block share a logIndex.
Ledger ==
    { [transactionHash |-> "a1", blockNumber |-> 1, logIndex |-> 0, args |-> FullArgs],
      [transactionHash |-> "a1", blockNumber |-> 1, logIndex |-> 1, args |-> FullArgs],
      [transactionHash |-> "b2", blockNumber |-> 4, logIndex |-> 2, args |-> NoRecipient],
      [transactionHash |-> "c3", blockNumber |-> 9, logIndex |-> 1, args |-> FullArgs] }

Heights == MinHeight..MaxHeight

\* HexBytes.hex()
Hex(h) == "0x" \o h

\* f"{tx_hash}-{log_index}"
EventId(tx_hash, log_index) == tx_hash \o "-" \o ToString(log_index)

EventKey(e) == EventId(Hex(e.transactionHash), e.logIndex)

\* args.get(name)
ArgGet(args, name) == IF name \in DOMAIN args THEN Some(args[name]) ELSE None

VARIABLES
    pc,                     \* where the driver stands
    last_processed_block,   \* self._last_processed_block
    processed_tx_hashes,    \* StateManager._processed_tx_hashes
    web3_set,               \* whether the connector's web3 is set
    start_block,            \* local of _poll_and_process_events
    latest_confirmed_block, \* local of _poll_and_process_events
    batch,                  \* what is left of sorted(raw_events)
    delay,                  \* seconds run sleeps before the next cycle
    fetch_status,           \* "none", "ok" or "failed": how get_events ended
    outcome,                \* how the cycle ended ("" while it runs)
    raw_in_order,           \* whether raw_events came back already ordered
    dispatched,             \* events the Actuator handled in this cycle, in order
    acted,                  \* event ids the Actuator has handled, over all runs
    turn,                   \* the last turn of the loop over the events
    act_failed,             \* ids whose last Actuator call of this cycle raised
    reconnect_tried,        \* connect() was called again in this cycle
    interrupted,            \* a KeyboardInterrupt has arrived
    h_start,                \* height read by _get_start_block in this cycle
    h_latest,               \* height read for latest_confirmed_block in this cycle
    cp_before,              \* last_processed_block when the cycle began
    fresh,                  \* restarted, and no scan has ended since
    crash_cp,               \* last_processed_block when the process died
    crash_acted             \* acted when the process died

vars == <<pc, last_processed_block, processed_tx_hashes, web3_set, start_block,
          latest_confirmed_block, batch, delay, fetch_status, outcome, raw_in_order,
          dispatched, acted, turn, act_failed, reconnect_tried, interrupted,
          h_start, h_latest, cp_before, fresh, crash_cp, crash_acted>>

\* What a restart keeps of the run before it.
restart_ghosts == <<fresh, crash_cp, crash_acted>>

\* ------------------------------------------------------ StateManager
\* Mutant of is_processed: the dedup set is never consulted.
is_processed_never(processed, tx_hash) == FALSE

is_processed(processed, tx_hash) == tx_hash \in processed

\* Mutant of mark_as_processed: the set holds the last id only.
mark_as_processed_last(processed, tx_hash) == {tx_hash}

mark_as_processed(processed, tx_hash) == processed \cup {tx_hash}

\* ------------------------------------------------------ BlockchainConnector
\* What web3.eth.block_number gives: a height, or None when the call raises
\* (the connector's web3 is set by the constructor and never cleared, so the
\* RPCConnectionError of get_latest_block_number cannot occur while polling).
HeightReads == {None} \cup {Some(h) : h \in Heights}

InRange(from_block, to_block) ==
    {e \in Ledger : from_block <= e.blockNumber /\ e.blockNumber <= to_block}

SeqRange(s) == {s[i] : i \in 1..Len(s)}

\* Every list that holds each log of S at least once, in any order, with up
\* to MaxDup repeated entries.
Arrangements(S) ==
    {s \in UNION {[1..n -> S] : n \in Cardinality(S)..(Cardinality(S) + MaxDup)} :
        SeqRange(s) = S}

ArrangementsOf == [S \in SUBSET Ledger |-> Arrangements(S)]

\* get_events: the entries of the filter, or [] when creating or reading the
\* filter raised (BlockNotFound or anything else).
get_events(from_block, to_block) ==
    {[status |-> "failed", entries |-> <<>>]}
    \cup {[status |-> "ok", entries |-> s] : s \in ArrangementsOf[InRange(from_block, to_block)]}

\* ------------------------------------------------------ EventProcessor
\* The dictionary process_event builds from a raw event.
ProcessedData(event) ==
    [tx_hash |-> Hex(event.transactionHash),
     log_index |-> event.logIndex,
     block_number |-> event.blockNumber,
     sender |-> ArgGet(event.args, "sender"),
     recipient |-> ArgGet(event.args, "recipient"),
     token_address |-> ArgGet(event.args, "token"),
     amount |-> ArgGet(event.args, "amount"),
     destination_chain_id |-> ArgGet(event.args, "destinationChainId"),
     nonce |-> ArgGet(event.args, "nonce")]

\* all(processed_data.values())
AllValues(d) ==
    /\ TruthyStr(d.tx_hash)
    /\ TruthyInt(d.log_index)
    /\ TruthyInt(d.block_number)
    /\ Truthy(d.sender)
    /\ Truthy(d.recipient)
    /\ Truthy(d.token_address)
    /\ Truthy(d.amount)
    /\ Truthy(d.destination_chain_id)
    /\ Truthy(d.nonce)

\* What the price service answers: the request fails (timeout, HTTP error,
\* body that is no JSON: a RequestException), or a JSON object comes back,
\* with a price for 'ethereum' (usd) or without one (None).
OracleResponses ==
    {[kind |-> "RequestException", usd |-> None],
     [kind |-> "json", usd |-> None],
     [kind |-> "json", usd |-> Some(0)],
     [kind |-> "json", usd |-> Some(2)]}

\* Mutant of get_token_price_usd: the RequestException is not caught.
get_token_price_usd_uncaught(response) ==
    IF response.kind = "RequestException"
    THEN [raised |-> TRUE, value |-> None]
    ELSE [raised |-> FALSE, value |-> response.usd]

\* _get_token_price_usd: the price, or None when the request failed or the
\* answer holds no price; raised says whether an exception leaves the method.
get_token_price_usd(response) ==
    IF response.kind = "RequestException"
    THEN [raised |-> FALSE, value |-> None]
    ELSE [raised |-> FALSE, value |-> response.usd]

\* (amount / 10**18) * price_usd, counted in 10**-18 USD.
AmountUsdEstimate(amount, price_usd) == amount[1] * price_usd[1]

\* The price service is not asked.
Unasked == [kind |-> "unasked", usd |-> None]

\* Whether process_event gets as far as the call of _get_token_price_usd.
AsksOracle(processed, event) ==
    LET d == ProcessedData(event) IN
    /\ ~is_processed(processed, EventId(d.tx_hash, d.log_index))
    /\ AllValues(d)

\* process_event: "none" (already processed, returns None), "error"
\* (EventProcessingError raised) or "data" (the dictionary is returned, with
\* amount_usd_estimate when a price was had).  response is the answer of
\* the price service, price_usd what _get_token_price_usd made of it.
process_event(processed, event, response) ==
    LET d == ProcessedData(event)
        price == get_token_price_usd(response)
        unpriced == [kind |-> "none", data |-> d, price_usd |-> None,
                     amount_usd_estimate |-> None]
    IN
    IF is_processed(processed, EventId(d.tx_hash, d.log_index))
    THEN unpriced
    ELSE IF ~AllValues(d)
         THEN [unpriced EXCEPT !.kind = "error"]
         ELSE IF price.raised
              THEN [unpriced EXCEPT !.kind = "error"]
              ELSE [kind |-> "data", data |-> d, price_usd |-> price.value,
                    amount_usd_estimate |->
                        IF Truthy(price.value)
                        THEN Some(AmountUsdEstimate(d.amount, price.value))
                        ELSE None]

\* ------------------------------------------------------ the listener
\* sorted(raw_events, key=lambda e: (e['blockNumber'], e['logIndex']))
KeyLess(a, b) ==
    \/ a.blockNumber < b.blockNumber
    \/ a.blockNumber = b.blockNumber /\ a.logIndex < b.logIndex

RECURSIVE InsertSorted(_, _)
InsertSorted(s, e) ==
    IF s = <<>> THEN <<e>>
    ELSE IF KeyLess(e, Head(s)) THEN <<e>> \o s
         ELSE <<Head(s)>> \o InsertSorted(Tail(s), e)

\* Mutant of SortEvents: the events are processed in the order fetched.
SortEvents_as_fetched(raw) == raw

RECURSIVE SortEvents(_)
SortEvents(raw) ==
    IF raw = <<>> THEN <<>>
    ELSE InsertSorted(SortEvents(SubSeq(raw, 1, Len(raw) - 1)), raw[Len(raw)])

\* Mutant of LatestConfirmed: the scan runs up to the tip of the chain.
LatestConfirmed_tip(height) == height

\* latest_confirmed_block of _poll_and_process_events
LatestConfirmed(height) == height - BLOCK_CONFIRMATIONS

\* _get_start_block, given what the height read gives should it be made
\* (None: the read raised, and so does _get_start_block).
get_start_block(checkpoint, read) ==
    IF Truthy(checkpoint)
    THEN Some(checkpoint[1] + 1)
    ELSE IF read = None
         THEN None
         ELSE Some(read[1] - BLOCK_CONFIRMATIONS - Lookback)

\* ------------------------------------------------------ the Actuator
\* How simulate_destination_chain_action ends: it logs and returns.
simulate_destination_chain_action == {"returned"}

\* How an Actuator that does the cross-chain call can end: it returns, or it
\* raises, an EventProcessingError or any other exception.
ActuatorOutcomes == {"returned", "EventProcessingError", "Exception"}

\* Mutant of ReachesMark: the id is marked whatever the Actuator did.
ReachesMark_always(result) == TRUE

\* mark_as_processed follows the Actuator call in the try block: it is
\* reached only when the call returned.
ReachesMark(result) == result = "returned"

\* ------------------------------------------------------ exception handlers
\* Mutant of except_Exception: the exception ends the process.
except_Exception_fatal == [pc |-> "stopped", delay |-> 0]

\* `except Exception` of _poll_and_process_events: the error is logged, the
\* method returns and run sleeps the poll interval.
except_Exception == [pc |-> "sleep", delay |-> POLL_INTERVAL_SECONDS]

\* `except RPCConnectionError` of _poll_and_process_events: connect() is
\* called.  When it returns, so does the method, and run sleeps the poll
\* interval; when it raises, the RPCConnectionError reaches `except
\* Exception` of run, which sleeps twice the interval.
except_RPCConnectionError(connect_ok) ==
    IF connect_ok
    THEN [pc |-> "sleep", delay |-> POLL_INTERVAL_SECONDS, outcome |-> "reconnected"]
    ELSE [pc |-> "sleep", delay |-> BackoffFactor * POLL_INTERVAL_SECONDS,
          outcome |-> "reconnect_failed"]

\* No turn of the loop has been taken.
NoTurn == <<>>

Init ==
    /\ pc = "poll"
    /\ last_processed_block = None
    /\ processed_tx_hashes = {}
    /\ web3_set = TRUE
    /\ start_block = None
    /\ latest_confirmed_block = None
    /\ batch = <<>>
    /\ delay = 0
    /\ fetch_status = "none"
    /\ outcome = ""
    /\ raw_in_order = TRUE
    /\ dispatched = <<>>
    /\ acted = {}
    /\ turn = NoTurn
    /\ act_failed = {}
    /\ reconnect_tried = FALSE
    /\ interrupted = FALSE
    /\ h_start = None
    /\ h_latest = None
    /\ cp_before = None
    /\ fresh = FALSE
    /\ crash_cp = None
    /\ crash_acted = {}

\* _poll_and_process_events up to `if start_block == -1: return`.
GetStartBlock ==
    /\ pc = "poll"
    /\ cp_before' = last_processed_block
    /\ \E r \in HeightReads :
         LET rpc_error == ~Truthy(last_processed_block) /\ ~web3_set
             s == IF rpc_error
                  THEN \* caught in _get_start_block
                       Some(RetrySentinel)
                  ELSE get_start_block(last_processed_block, r)
         IN
         /\ h_start' = IF Truthy(last_processed_block) \/ rpc_error THEN None ELSE r
         /\ start_block' = s
         /\ IF s = None
            THEN \* the read raised
                 /\ pc' = except_Exception.pc
                 /\ delay' = except_Exception.delay
                 /\ outcome' = "read_failed"
            ELSE IF s[1] = RetrySentinel
                 THEN /\ pc' = "sleep"
                      /\ delay' = POLL_INTERVAL_SECONDS
                      /\ outcome' = "retry"
                 ELSE /\ pc' = "latest"
                      /\ delay' = 0
                      /\ outcome' = ""
    /\ UNCHANGED <<last_processed_block, processed_tx_hashes, web3_set,
                   latest_confirmed_block, batch, fetch_status, raw_in_order,
                   dispatched, acted, turn, act_failed, reconnect_tried, interrupted,
                   h_latest, restart_ghosts>>

\* Mutant of NothingToScan: the range is scanned whatever its ends.
NothingToScan_never(from_block, to_block) == FALSE

\* if start_block > latest_confirmed_block
NothingToScan(from_block, to_block) == from_block > to_block

\* The second height read and the test start_block > latest_confirmed_block.
ReadLatest ==
    /\ pc = "latest"
    /\ IF ~web3_set
       THEN \* get_latest_block_number raises RPCConnectionError
            \E connect_ok \in BOOLEAN :
              /\ h_latest' = None
              /\ latest_confirmed_block' = None
              /\ web3_set' = TRUE
              /\ reconnect_tried' = TRUE
              /\ pc' = except_RPCConnectionError(connect_ok).pc
              /\ delay' = except_RPCConnectionError(connect_ok).delay
              /\ outcome' = except_RPCConnectionError(connect_ok).outcome
       ELSE \E r \in HeightReads :
              /\ h_latest' = r
              /\ UNCHANGED <<web3_set, reconnect_tried>>
              /\ IF r = None
                 THEN /\ latest_confirmed_block' = None
                      /\ pc' = except_Exception.pc
                      /\ delay' = except_Exception.delay
                      /\ outcome' = "read_failed"
                 ELSE /\ latest_confirmed_block' = Some(LatestConfirmed(r[1]))
                      /\ IF NothingToScan(start_block[1], LatestConfirmed(r[1]))
                         THEN /\ pc' = "sleep"
                              /\ delay' = POLL_INTERVAL_SECONDS
                              /\ outcome' = "no_new_blocks"
                         ELSE /\ pc' = "fetch"
                              /\ delay' = 0
                              /\ outcome' = ""
    /\ UNCHANGED <<last_processed_block, processed_tx_hashes, start_block, batch,
                   fetch_status, raw_in_order, dispatched, acted, turn, act_failed,
                   interrupted, h_start, cp_before, restart_ghosts>>

\* get_events and the sort that opens the processing loop.
Fetch ==
    /\ pc = "fetch"
    /\ IF ~web3_set
       THEN \* get_events raises RPCConnectionError before its try block
            \E connect_ok \in BOOLEAN :
              /\ web3_set' = TRUE
              /\ reconnect_tried' = TRUE
              /\ pc' = except_RPCConnectionError(connect_ok).pc
              /\ delay' = except_RPCConnectionError(connect_ok).delay
              /\ outcome' = except_RPCConnectionError(connect_ok).outcome
              /\ UNCHANGED <<fetch_status, batch, raw_in_order>>
       ELSE \E r \in get_events(start_block[1], latest_confirmed_block[1]) :
              LET sorted_events == SortEvents(r.entries) IN
              /\ fetch_status' = r.status
              /\ batch' = sorted_events
              /\ raw_in_order' = (r.entries = sorted_events)
              /\ pc' = "process"
              /\ UNCHANGED <<web3_set, reconnect_tried, delay, outcome>>
    /\ UNCHANGED <<last_processed_block, processed_tx_hashes, start_block,
                   latest_confirmed_block, dispatched, acted, turn, act_failed,
                   interrupted, h_start, h_latest, cp_before, restart_ghosts>>

\* One turn of the loop over the sorted events, with an Actuator that ends
\* in one of the given ways.
ProcessEventWith(outcomes) ==
    /\ pc = "process"
    /\ batch # <<>>
    /\ \E response \in IF AsksOracle(processed_tx_hashes, Head(batch))
                         THEN OracleResponses ELSE {Unasked},
          result \in IF AsksOracle(processed_tx_hashes, Head(batch))
                       THEN outcomes ELSE {"uncalled"} :
         LET event == Head(batch)
             r == process_event(processed_tx_hashes, event, response)
             event_id == EventId(r.data.tx_hash, r.data.log_index)
         IN
         IF r.kind = "data"
         THEN \* the Actuator is called with r.data and amount_usd_estimate
              /\ turn' = <<[id |-> event_id, kind |-> r.kind,
                            asked |-> response # Unasked,
                            price_usd |-> r.price_usd,
                            amount_usd_estimate |-> r.amount_usd_estimate,
                            actuator |-> result]>>
              /\ dispatched' = IF result = "returned"
                               THEN Append(dispatched, event) ELSE dispatched
              /\ acted' = IF result = "returned"
                          THEN acted \cup {event_id} ELSE acted
              /\ act_failed' = IF result = "returned"
                               THEN act_failed \ {event_id}
                               ELSE act_failed \cup {event_id}
              /\ processed_tx_hashes' =
                     IF ReachesMark(result)
                     THEN mark_as_processed(processed_tx_hashes, event_id)
                     ELSE processed_tx_hashes
              /\ IF result = "Exception"
                 THEN \* not caught in the loop: the rest of the batch is left
                      /\ pc' = except_Exception.pc
                      /\ delay' = except_Exception.delay
                      /\ outcome' = "aborted"
                 ELSE UNCHANGED <<pc, delay, outcome>>
         ELSE \* already processed, or EventProcessingError caught in the loop
              /\ turn' = <<[id |-> event_id, kind |-> r.kind,
                            asked |-> response # Unasked,
                            price_usd |-> None,
                            amount_usd_estimate |-> None,
                            actuator |-> "uncalled"]>>
              /\ UNCHANGED <<dispatched, acted, act_failed, processed_tx_hashes,
                             pc, delay, outcome>>
    /\ batch' = Tail(batch)
    /\ UNCHANGED <<last_processed_block, web3_set, start_block, latest_confirmed_block,
                   fetch_status, raw_in_order, reconnect_tried, interrupted,
                   h_start, h_latest, cp_before, restart_ghosts>>

\* The loop turn of the program as it stands.
ProcessEvent == ProcessEventWith(simulate_destination_chain_action)

\* The loop turn with an Actuator that can fail.
ProcessEventActuator == ProcessEventWith(ActuatorOutcomes)

\* Mutant of Commit: the checkpoint is written before the batch is through.
Commit_early ==
    /\ pc = "process"
    /\ last_processed_block' = latest_confirmed_block
    /\ pc' = "sleep"
    /\ delay' = POLL_INTERVAL_SECONDS
    /\ outcome' = "committed"
    /\ turn' = NoTurn
    /\ UNCHANGED <<processed_tx_hashes, web3_set, start_block, latest_confirmed_block,
                   batch, fetch_status, raw_in_order, dispatched, acted, act_failed,
                   reconnect_tried, interrupted, h_start, h_latest, cp_before,
                   restart_ghosts>>

\* self._last_processed_block = latest_confirmed_block
Commit ==
    /\ pc = "process"
    /\ batch = <<>>
    /\ last_processed_block' = latest_confirmed_block
    /\ pc' = "sleep"
    /\ delay' = POLL_INTERVAL_SECONDS
    /\ outcome' = "committed"
    /\ turn' = NoTurn
    /\ UNCHANGED <<processed_tx_hashes, web3_set, start_block, latest_confirmed_block,
                   batch, fetch_status, raw_in_order, dispatched, acted, act_failed,
                   reconnect_tried, interrupted, h_start, h_latest, cp_before,
                   restart_ghosts>>

\* time.sleep in run, then the next turn of `while True`.
Sleep ==
    /\ pc = "sleep"
    /\ pc' = "poll"
    /\ delay' = 0
    /\ start_block' = None
    /\ latest_confirmed_block' = None
    /\ batch' = <<>>
    /\ fetch_status' = "none"
    /\ outcome' = ""
    /\ raw_in_order' = TRUE
    /\ dispatched' = <<>>
    /\ turn' = NoTurn
    /\ act_failed' = {}
    /\ reconnect_tried' = FALSE
    /\ h_start' = None
    /\ h_latest' = None
    /\ cp_before' = None
    /\ fresh' = IF outcome = "committed" THEN FALSE ELSE fresh
    /\ crash_cp' = IF outcome = "committed" THEN None ELSE crash_cp
    /\ crash_acted' = IF outcome = "committed" THEN {} ELSE crash_acted
    /\ UNCHANGED <<last_processed_block, processed_tx_hashes, web3_set, acted,
                   interrupted>>

\* Mutant of Interrupt: the cycle in flight commits its checkpoint on the
\* way out.
Interrupt_committing ==
    /\ pc # "stopped"
    /\ pc' = "stopped"
    /\ interrupted' = TRUE
    /\ last_processed_block' =
           IF latest_confirmed_block # None
           THEN latest_confirmed_block ELSE last_processed_block
    /\ UNCHANGED <<processed_tx_hashes, web3_set, start_block, latest_confirmed_block,
                   batch, delay, fetch_status, outcome, raw_in_order, dispatched,
                   acted, turn, act_failed, reconnect_tried, h_start, h_latest,
                   cp_before, restart_ghosts>>

\* A KeyboardInterrupt arrives.  No `except Exception` catches it: it leaves
\* whatever the driver is doing, reaches `except KeyboardInterrupt` of run,
\* and the loop is left.
Interrupt ==
    /\ pc # "stopped"
    /\ pc' = "stopped"
    /\ interrupted' = TRUE
    /\ UNCHANGED <<last_processed_block, processed_tx_hashes, web3_set, start_block,
                   latest_confirmed_block, batch, delay, fetch_status, outcome,
                   raw_in_order, dispatched, acted, turn, act_failed,
                   reconnect_tried, h_start, h_latest, cp_before, restart_ghosts>>

\* The KeyboardInterrupt arrives in a loop turn, when the Actuator has
\* returned and mark_as_processed has not been called.
InterruptBeforeMark ==
    /\ pc = "process"
    /\ batch # <<>>
    /\ \E response \in OracleResponses :
         LET event == Head(batch)
             r == process_event(processed_tx_hashes, event, response)
             event_id == EventId(r.data.tx_hash, r.data.log_index)
         IN
         /\ r.kind = "data"
         /\ turn' = <<[id |-> event_id, kind |-> r.kind, asked |-> TRUE,
                       price_usd |-> r.price_usd,
                       amount_usd_estimate |-> r.amount_usd_estimate,
                       actuator |-> "returned"]>>
         /\ dispatched' = Append(dispatched, event)
         /\ acted' = acted \cup {event_id}
    /\ batch' = Tail(batch)
    /\ pc' = "stopped"
    /\ interrupted' = TRUE
    /\ UNCHANGED <<last_processed_block, processed_tx_hashes, web3_set, start_block,
                   latest_confirmed_block, delay, fetch_status, outcome,
                   raw_in_order, act_failed, reconnect_tried, h_start, h_latest,
                   cp_before, restart_ghosts>>

\* Mutant of Restart: the checkpoint and the dedup set outlive the process.
Restart_persisting ==
    /\ crash_cp' = last_processed_block
    /\ crash_acted' = acted
    /\ fresh' = TRUE
    /\ pc' = "poll"
    /\ web3_set' = TRUE
    /\ delay' = 0
    /\ start_block' = None
    /\ latest_confirmed_block' = None
    /\ batch' = <<>>
    /\ fetch_status' = "none"
    /\ outcome' = ""
    /\ raw_in_order' = TRUE
    /\ dispatched' = <<>>
    /\ turn' = NoTurn
    /\ act_failed' = {}
    /\ reconnect_tried' = FALSE
    /\ interrupted' = FALSE
    /\ h_start' = None
    /\ h_latest' = None
    /\ cp_before' = None
    /\ UNCHANGED <<last_processed_block, processed_tx_hashes, acted>>

\* The process dies, at any point, and is started again: __init__ builds a
\* new listener with a new StateManager and no _last_processed_block.
Restart ==
    /\ crash_cp' = last_processed_block
    /\ crash_acted' = acted
    /\ fresh' = TRUE
    /\ last_processed_block' = None
    /\ processed_tx_hashes' = {}
    /\ pc' = "poll"
    /\ web3_set' = TRUE
    /\ delay' = 0
    /\ start_block' = None
    /\ latest_confirmed_block' = None
    /\ batch' = <<>>
    /\ fetch_status' = "none"
    /\ outcome' = ""
    /\ raw_in_order' = TRUE
    /\ dispatched' = <<>>
    /\ turn' = NoTurn
    /\ act_failed' = {}
    /\ reconnect_tried' = FALSE
    /\ interrupted' = FALSE
    /\ h_start' = None
    /\ h_latest' = None
    /\ cp_before' = None
    /\ UNCHANGED acted

Next ==
    \/ GetStartBlock
    \/ ReadLatest
    \/ Fetch
    \/ ProcessEvent
    \/ Commit
    \/ Sleep

\* One run of the process.
Spec == Init /\ [][Next]_vars

NextRestart ==
    \/ Next
    \/ Restart

\* Runs of the process with restarts in between.
SpecRestart == Init /\ [][NextRestart]_vars

\* The steps of the driver when the Actuator can fail.
Driver ==
    \/ GetStartBlock
    \/ ReadLatest
    \/ Fetch
    \/ ProcessEventActuator
    \/ Commit
    \/ Sleep

NextFaults ==
    \/ Driver
    \/ Interrupt
    \/ InterruptBeforeMark

\* One run of the process with an Actuator that can fail, and a
\* KeyboardInterrupt that can arrive at any point.
SpecFaults == Init /\ [][NextFaults]_vars

\* ====================================================== properties

\* The ids of the events handed to the Actuator in this cycle.
DispatchedIds == {EventKey(dispatched[i]) : i \in 1..Len(dispatched)}

\* The logs of the range this cycle scans.
Scanned == InRange(start_block[1], latest_confirmed_block[1])

\* The six named arguments are all present and none is zero.
SixArgsValid(e) == \A a \in ArgNames : a \in DOMAIN e.args /\ e.args[a] # 0

\* (blockNumber, logIndex) of a is strictly below that of b.
PairBelow(a, b) ==
    \/ a.blockNumber < b.blockNumber
    \/ a.blockNumber = b.blockNumber /\ a.logIndex < b.logIndex

\* The cycle has fetched its range and gone through the whole batch.
CycleDone == pc = "sleep" /\ outcome = "committed"

\* C1: within one run of the process the Actuator is called at most once per
\* event id: a step that finds an id the Actuator was already called for
\* (process_event returns None) calls the Actuator for nothing, and no step
\* calls it for an id it was called for before.
C1_AtMostOnce ==
    [][ /\ (pc = "process" /\ batch # <<>> /\ EventKey(Head(batch)) \in acted)
            => dispatched' = dispatched
        /\ (Len(dispatched') = Len(dispatched) + 1)
            => EventKey(dispatched'[Len(dispatched')]) \notin acted ]_vars

\* C1 witness: the loop stands before a second occurrence of an event the
\* Actuator was called for earlier in the same batch.
C1_Witness ==
    /\ pc = "process"
    /\ batch # <<>>
    /\ EventKey(Head(batch)) \in acted
    /\ EventKey(Head(batch)) \in DispatchedIds

\* C2: a cycle whose log fetch failed finds no events and leaves the
\* checkpoint as it was before the cycle.
C2_FetchFailureKeepsCheckpoint ==
    (pc = "sleep" /\ fetch_status = "failed")
        => (dispatched = <<>> /\ last_processed_block = cp_before)

\* C3: once the checkpoint holds a block number, no step assigns it a
\* smaller one (or unsets it).
C3_CheckpointMonotone ==
    [][ last_processed_block # None
          => (last_processed_block' # None
              /\ last_processed_block'[1] >= last_processed_block[1]) ]_vars

\* C4: the upper end of the range fetched, the checkpoint committed and the
\* block of every event dispatched are at most H - C, H being the height
\* read for that cycle's latest_confirmed_block.
C4_ConfirmationLag ==
    /\ latest_confirmed_block # None
         => latest_confirmed_block[1] <= h_latest[1] - BLOCK_CONFIRMATIONS
    /\ CycleDone
         => last_processed_block[1] <= h_latest[1] - BLOCK_CONFIRMATIONS
    /\ \A i \in 1..Len(dispatched) :
         dispatched[i].blockNumber <= h_latest[1] - BLOCK_CONFIRMATIONS

\* C4 witness: an event of the very block H - C has been dispatched.
C4_Witness ==
    /\ pc = "process"
    /\ \E i \in 1..Len(dispatched) :
         dispatched[i].blockNumber = h_latest[1] - BLOCK_CONFIRMATIONS

\* C5: a cycle that starts without a checkpoint and reads the same height H
\* throughout scans [H - C - 10, H - C] and commits H - C.
C5_ColdStart ==
    ( /\ pc = "sleep"
      /\ cp_before = None
      /\ h_start # None
      /\ outcome # "read_failed"
      /\ h_latest \in {None, h_start} )
        => /\ outcome = "committed"
           /\ start_block = Some(h_start[1] - BLOCK_CONFIRMATIONS - Lookback)
           /\ latest_confirmed_block = Some(h_start[1] - BLOCK_CONFIRMATIONS)
           /\ last_processed_block = Some(h_start[1] - BLOCK_CONFIRMATIONS)

\* C6: a cycle that starts with a checkpoint c, whatever c, scans from c + 1
\* up to H - C.
C6_Contiguous ==
    (pc \in {"fetch", "process"} /\ cp_before # None)
        => /\ start_block = Some(cp_before[1] + 1)
           /\ latest_confirmed_block = Some(h_latest[1] - BLOCK_CONFIRMATIONS)

C8_RejectedIffInvalid ==
    (CycleDone /\ fetch_status = "ok")
        => \A e \in Scanned :
             EventKey(e) \notin (processed_tx_hashes \ DispatchedIds)
                => (SixArgsValid(e) <=> EventKey(e) \in DispatchedIds)

\* C9: when a fetched batch holds an invalid event, that event is neither
\* dispatched nor marked, every other event of the batch with six valid
\* arguments is dispatched (now, or in an earlier cycle) and marked, and the
\* checkpoint advances to the end of the range.
C9_ValidationIsolated ==
    (CycleDone /\ fetch_status = "ok" /\ \E e \in Scanned : ~SixArgsValid(e))
        => /\ \A e \in Scanned :
                ~SixArgsValid(e)
                   => (EventKey(e) \notin DispatchedIds
                       /\ EventKey(e) \notin processed_tx_hashes)
           /\ \A e \in Scanned :
                SixArgsValid(e)
                   => (EventKey(e) \in acted /\ EventKey(e) \in processed_tx_hashes)
           /\ last_processed_block = latest_confirmed_block

\* C10: the events dispatched in one cycle were dispatched in strictly
\* ascending (blockNumber, logIndex) order.
C10_AscendingDispatch ==
    \A i \in 1..Len(dispatched) : \A j \in 1..Len(dispatched) :
        i < j => PairBelow(dispatched[i], dispatched[j])

\* C10 witness: two events were dispatched out of a batch that the Ledger
\* Client had not returned in order.
C10_Witness ==
    /\ ~raw_in_order
    /\ Len(dispatched) >= 2
    /\ dispatched[1].blockNumber < dispatched[2].blockNumber


\* The last loop turn asked the price service and had no price of it: the
\* request failed, or the answer held none.
TurnWithoutPrice == turn # NoTurn /\ turn[1].asked /\ turn[1].price_usd = None

StepsLeft ==
    LET longest == Cardinality(Ledger) + MaxDup IN
    CASE pc = "sleep" -> 1
      [] pc = "process" -> 3 + Len(batch)
      [] pc = "fetch" -> 4 + longest
      [] pc = "latest" -> 5 + longest
      [] pc = "poll" -> 6 + longest
      [] OTHER -> 0

\* C13: no failure inside a cycle ends the loop.  The driver is stopped only
\* when a KeyboardInterrupt has arrived; wherever else it stands, after a
\* failure too, it has a step to take, and every step it takes either
\* starts the next cycle or leaves it fewer steps away from that start.
C13_LoopSurvivesFailures ==
    /\ [](pc = "stopped" => interrupted)
    /\ [](pc # "stopped" => ENABLED Driver)
    /\ [][(~interrupted') => (pc' = "poll" \/ StepsLeft' < StepsLeft)]_vars

\* A cycle dispatched an event and was abandoned before its commit, and the
\* driver is in a later cycle.
C13_Witness ==
    /\ pc = "latest"
    /\ processed_tx_hashes # {}
    /\ last_processed_block = None
    /\ ~interrupted

\* No first scan starts above this block: a first scan starts at
\* H - BLOCK_CONFIRMATIONS - Lookback for a height H it has read.
HighestFirstFrom == MaxHeight - BLOCK_CONFIRMATIONS - Lookback

\* C14: while a checkpoint c is held, no valid event at or below it is
\* lost: every log the ledger holds in a block from the first scanned one
\* up to c, with its six named arguments present and non-zero, has been
\* handled by the Actuator and has its id in the processed set.  (Every log
\* of Ledger lies at or above HighestFirstFrom, hence at or above the block
\* the first scan started from.)
C14_NoValidEventLost ==
    last_processed_block # None =>
        \A e \in Ledger :
            ( /\ HighestFirstFrom <= e.blockNumber
              /\ e.blockNumber <= last_processed_block[1]
              /\ SixArgsValid(e) )
            => (EventKey(e) \in acted /\ EventKey(e) \in processed_tx_hashes)

\* C15: within one run of the process the dedup set never forgets an id:
\* for every id in the set, is_processed is still true after any step,
\* whatever fails in that step; the set only grows.
C15_DedupNeverForgets ==
    [][ /\ \A k \in processed_tx_hashes : is_processed(processed_tx_hashes', k)
        /\ processed_tx_hashes \subseteq processed_tx_hashes' ]_vars

\* Two ids were marked, and a later cycle failed at its height read.
C15_Witness ==
    /\ Cardinality(processed_tx_hashes) >= 2
    /\ pc = "sleep"
    /\ outcome = "read_failed"
    /\ dispatched = <<>>

\* The cycle met a failure of the connection to the node: a height read or
\* the fetch raised, or the connector had no web3.
ConnectionFailed ==
    \/ outcome \in {"read_failed", "reconnected", "reconnect_failed"}
    \/ fetch_status = "failed"

\* C16: a cycle that met a connection failure ends with a reconnect
\* attempted and with the driver sleeping twice the poll interval, whether
\* or not the reconnect succeeded.
C16_ReconnectAndBackoff ==
    (pc = "sleep" /\ ConnectionFailed) =>
        /\ reconnect_tried
        /\ delay = BackoffFactor * POLL_INTERVAL_SECONDS

\* C17: an id is in the processed set only when the Actuator has returned
\* from a call for it: the set changes only in a loop turn in which
\* process_event gave data and the Actuator call returned, and then by the
\* id of that turn; no turn that skips a duplicate, rejects an event or sees
\* the Actuator raise adds to it.
C17_MarkedOnlyAfterSuccess ==
    /\ [](processed_tx_hashes \subseteq acted)
    /\ [][ processed_tx_hashes' # processed_tx_hashes =>
             /\ turn' # NoTurn
             /\ turn'[1].kind = "data"
             /\ turn'[1].actuator = "returned"
             /\ processed_tx_hashes' = processed_tx_hashes \cup {turn'[1].id} ]_vars

\* One Actuator call of the cycle raised, and a later one returned.
C17_Witness ==
    /\ act_failed # {}
    /\ act_failed \cap processed_tx_hashes = {}
    /\ processed_tx_hashes # {}
    /\ turn # NoTurn
    /\ turn[1].actuator = "returned"

\* C18: a cycle whose from lies above its to does nothing: the height read
\* that finds start_block > latest_confirmed_block ends the cycle there,
\* with no fetch, no loop turn, no Actuator call, and the checkpoint and the
\* processed set as they were.  Hence every range handed to get_events has
\* from <= to.
C18_EmptyRangeDoesNothing ==
    /\ [][ ( /\ pc = "latest"
             /\ latest_confirmed_block' # None
             /\ start_block[1] > latest_confirmed_block'[1] )
           => ( /\ pc' = "sleep"
                /\ outcome' = "no_new_blocks"
                /\ UNCHANGED <<last_processed_block, processed_tx_hashes, acted>> ) ]_vars
    /\ [](outcome = "no_new_blocks" =>
             /\ fetch_status = "none"
             /\ batch = <<>>
             /\ turn = NoTurn
             /\ dispatched = <<>>
             /\ act_failed = {}
             /\ last_processed_block = cp_before)
    /\ []((pc = "fetch" \/ fetch_status # "none") =>
             start_block[1] <= latest_confirmed_block[1])

\* With a checkpoint held and ids marked, a cycle finds its from above its
\* to.
C18_Witness ==
    /\ pc = "sleep"
    /\ outcome = "no_new_blocks"
    /\ start_block[1] > latest_confirmed_block[1]
    /\ last_processed_block # None
    /\ processed_tx_hashes # {}

\* C19: the checkpoint changes in one place only, the commit that ends a
\* cycle which scanned a range with from <= to and went through its whole
\* batch with no exception leaving the loop, and it is set to that cycle's
\* to; a cycle that ends in a failed height read or in an exception that
\* leaves the loop holds the checkpoint it began with.
C19_CheckpointOnlyAtCommit ==
    /\ [][ last_processed_block' # last_processed_block =>
             /\ pc = "process"
             /\ batch = <<>>
             /\ outcome = ""
             /\ fetch_status # "none"
             /\ start_block[1] <= latest_confirmed_block[1]
             /\ last_processed_block' = latest_confirmed_block
             /\ outcome' = "committed" ]_vars
    /\ [](outcome \in {"read_failed", "aborted"} => last_processed_block = cp_before)

\* A cycle that began with a checkpoint below its to was abandoned when an
\* Actuator call raised.
C19_Witness ==
    /\ pc = "sleep"
    /\ outcome = "aborted"
    /\ cp_before # None
    /\ last_processed_block = cp_before
    /\ last_processed_block[1] < latest_confirmed_block[1]

\* A cycle has begun and run has not yet slept it off.
CycleInFlight == start_block # None \/ outcome # ""

\* C20: a KeyboardInterrupt stops the driver cleanly.  The step that takes
\* it leaves the checkpoint alone and puts the driver in stopped; a stopped
\* driver whose cycle was in flight either had committed it (the whole batch
\* handled, the checkpoint at the cycle's to) or holds the checkpoint the
\* cycle began with; and once stopped, no step is taken: no Actuator call,
\* no mark_as_processed and no change of the checkpoint.
C20_CleanCancellation ==
    /\ [][ (pc # "stopped" /\ pc' = "stopped") =>
             /\ interrupted'
             /\ last_processed_block' = last_processed_block ]_vars
    /\ [](interrupted => pc = "stopped")
    /\ []((pc = "stopped" /\ CycleInFlight) =>
             IF outcome = "committed"
             THEN batch = <<>> /\ last_processed_block = latest_confirmed_block
             ELSE last_processed_block = cp_before)
    /\ [](pc = "stopped" => ~ENABLED NextFaults)
    /\ [][ pc = "stopped" =>
             UNCHANGED <<acted, dispatched, processed_tx_hashes,
                         last_processed_block>> ]_vars

\* The KeyboardInterrupt came in the middle of a batch, after an event of it
\* had been dispatched.
C20_Witness ==
    /\ pc = "stopped"
    /\ batch # <<>>
    /\ dispatched # <<>>
    /\ latest_confirmed_block # None
    /\ last_processed_block # latest_confirmed_block

====
